---------------------------- MODULE Spec2Model ----------------------------
(***************************************************************************)
(* TorrentChecker (Tribler/Core/TorrentChecker/torrent_checker.py): the    *)
(* periodic tracker selection, the session registry, the on-demand health  *)
(* check with its full join and reconciliation, and shutdown.              *)
(*                                                                         *)
(* Everything runs on the Twisted reactor thread: every handler below is   *)
(* one atomic step.  A Deferred's callback chain runs synchronously when   *)
(* the Deferred fires, so the completion of a probe, its session callback, *)
(* and (for the last participant of a request) the DeferredList callback   *)
(* on_gui_request_completed are one step.                                  *)
(***************************************************************************)
EXTENDS Integers, Sequences, FiniteSets, TLC

(***************************************************************************)
(* Program constants.                                                      *)
(***************************************************************************)
DEFAULT_TORRENT_CHECK_INTERVAL == 900
DEFAULT_MAX_TORRENT_CHECK_RETRIES == 8
DEFAULT_TORRENT_CHECK_RETRY_INTERVAL == 30

(***************************************************************************)
(* Bounds of the model.                                                    *)
(***************************************************************************)
\* sessions ever created (tracker sessions and FakeDHTSessions together)
MaxSessions == 2

\* participants of the DeferredList handed to on_gui_request_completed alone
MaxOutcomes == 3

\* the failure count a tracker record starts with, where it is drawn
MaxFailures == 9

\* calls of session.cleanup() on one session, where clean_session is called on
\* sessions at will
MaxCleanups == 2

(***************************************************************************)
(* The environment: tracker identities, torrents, clock readings, probe    *)
(* outcomes.                                                               *)
(***************************************************************************)
DHT == "DHT"
NoDHT == "no-DHT"
None == "None"

\* a well-formed tracker, a URL that is_valid_url accepts but for which
\* create_tracker_session raises MalformedTrackerURLException, and a URL that
\* is_valid_url rejects
T1 == "udp://t1:80"
TMal == "ftp://t2/announce"
TBad == "t3 announce"
TrackerUrls == {T1, TMal, TBad}
Identities == TrackerUrls \cup {DHT, NoDHT}

Infohashes == {"h1", "h2", "h3"}

\* readings of time.time(), in seconds
Clock == {1899, 1900}

\* (seeders, leechers) pairs a probe can report
Healths == {<<0, 2>>, <<5, 9>>}

\* exception types a failed probe can carry; TimeoutError stands for every
\* type that on_session_error does not trap
FailureTypes == {"ConnectionLost", "CancelledError", "TimeoutError"}

VARIABLES
    should_stop,             \* self._should_stop
    session_list,            \* self._session_list: identity -> list of sessions
    session_stop_defer_list, \* self.session_stop_defer_list: the Deferreds, in order
    udp_port,                \* self.udp_port
    connection_pool,         \* self.connection_pool
    tasks,                   \* names of the pending tasks of the TaskManager
    sessions,                \* every session created so far, by session number
    requests,                \* every DeferredList built by add_gui_request
    shutdown_wait,           \* the Deferreds the DeferredList of shutdown() joins
    torrent_state,           \* mds.TorrentState: the torrent health records
    tracker_failures,        \* TrackerState.failures, written by the tracker manager
    removed_trackers,        \* trackers removed through tracker_manager.remove_tracker
    now,                     \* the reading of time.time()
    returned                 \* the call of a public method the step just taken was, with
                             \* its arguments and what it returned; none for another step

vars == <<should_stop, session_list, session_stop_defer_list, udp_port,
          connection_pool, tasks, sessions, requests, shutdown_wait,
          torrent_state, tracker_failures, removed_trackers, now, returned>>

(***************************************************************************)
(* Collaborators outside torrent_checker.py, at their interface.           *)
(***************************************************************************)
\* Tribler.Core.Utilities.utilities.is_valid_url
is_valid_url(url) == url # TBad

\* whether create_tracker_session raises MalformedTrackerURLException
RaisesMalformed(url) == url \in {TMal, DHT, NoDHT}

\* TorrentState.trackers of a stored torrent, as the store starts
TorrentTrackers(infohash) ==
    CASE infohash = "h1" -> {T1, TBad}
      [] infohash = "h2" -> {T1, TMal, DHT}
      [] OTHER -> {}

\* the identities with a TrackerState record, as the store starts
StoredTrackers == TrackerUrls \cup {DHT}

\* the torrent health records the store starts with; "h3" has none
InitialTorrentState ==
    [h \in Infohashes |->
        CASE h = "h1" -> [exists |-> TRUE, seeders |-> 3, leechers |-> 1, last_check |-> 1000]
          [] h = "h2" -> [exists |-> TRUE, seeders |-> 0, leechers |-> 0, last_check |-> 0]
          [] OTHER -> [exists |-> FALSE, seeders |-> 0, leechers |-> 0, last_check |-> 0]]

\* tracker_manager.update_tracker_info: a success clears the failure count, a
\* failure adds one to it
RecordOutcome(failures, url, is_successful) ==
    [failures EXCEPT ![url] = IF is_successful THEN 0 ELSE @ + 1]

(***************************************************************************)
(* Outcomes of the participants of a DeferredList: (success, result).      *)
(***************************************************************************)
\* the slot of a Deferred that has not fired yet
Pending ==
    [ok |-> FALSE, val |-> "pending", url |-> None, seeders |-> 0, leechers |-> 0,
     error |-> None]

\* (True, {tracker_url: [{'seeders': s, 'leechers': l, ...}]})
Response(url, health) ==
    [ok |-> TRUE, val |-> "response", url |-> url, seeders |-> health[1],
     leechers |-> health[2], error |-> None]

\* (True, None): what _on_result_from_session returns once _should_stop is set
NoneResult ==
    [ok |-> TRUE, val |-> None, url |-> None, seeders |-> 0, leechers |-> 0,
     error |-> None]

\* (False, Failure); url is the tracker_url attribute on_session_error sets,
\* None for a failure that never got one
FailureResult(url, type) ==
    [ok |-> FALSE, val |-> "failure", url |-> url, seeders |-> 0, leechers |-> 0,
     error |-> type]

Range(f) == {f[i] : i \in DOMAIN f}

\* the sequences that list every element of the set S once
Orderings(S) ==
    {o \in [1..Cardinality(S) -> S] : \A i, j \in 1..Cardinality(S) : o[i] = o[j] => i = j}


(***************************************************************************)
(* The session registry.  The handlers below thread a record st of the     *)
(* fields they assign: session_list, session_stop_defer_list,              *)
(* tracker_failures, sessions, and raised (an exception left the handler). *)
(* A session keeps, beside its attributes, what happened to it: result is  *)
(* what its Deferred carries after the session callbacks (Pending until    *)
(* the probe ends), cleanups counts the calls of session.cleanup(), and    *)
(* updates lists the values passed to update_tracker_info on its behalf.   *)
(***************************************************************************)
\* a session right after its construction
NewSession(url, infohashes, request, slot) ==
    [tracker_url |-> url, infohashes |-> infohashes, request |-> request,
     slot |-> slot, result |-> Pending, is_failed |-> FALSE, cleanups |-> 0,
     updates |-> <<>>]

\* the Deferred that session.cleanup() returns
CleanupDeferred(s) == [kind |-> "cleanup", session |-> s, fired |-> FALSE]

\* list.remove(x): the list without the first occurrence of x
RECURSIVE ListRemove(_, _)
ListRemove(list, x) ==
    IF list = <<>> THEN <<>>
    ELSE IF Head(list) = x THEN Tail(list)
    ELSE <<Head(list)>> \o ListRemove(Tail(list), x)

\* lines 283-285 of _create_session_for_request: the registry with the new
\* session s appended to the list of tracker_url
RegisterSession(list, tracker_url, s) ==
    IF tracker_url \notin DOMAIN list
    THEN list @@ (tracker_url :> <<s>>)
    ELSE [list EXCEPT ![tracker_url] = Append(@, s)]

\* lines 295-297 without the test for DHT at line 296
UnregisterAnyEmpty(list, tracker_url, s) ==
    LET rest == ListRemove(list[tracker_url], s) IN
    IF Len(rest) = 0
    THEN [u \in DOMAIN list \ {tracker_url} |-> list[u]]
    ELSE [list EXCEPT ![tracker_url] = rest]

\* lines 295-297 of clean_session: remove the session from the registry, and
\* the identity with it when its list is empty and it is not DHT
Unregister(list, tracker_url, s) ==
    LET rest == ListRemove(list[tracker_url], s) IN
    IF Len(rest) = 0 /\ tracker_url # DHT
    THEN [u \in DOMAIN list \ {tracker_url} |-> list[u]]
    ELSE [list EXCEPT ![tracker_url] = rest]

\* self.tribler_session.lm.tracker_manager.update_tracker_info(url, value), for
\* session s
update_tracker_info(st, s, value) ==
    [st EXCEPT
       !.tracker_failures = RecordOutcome(@, st.sessions[s].tracker_url, value),
       !.sessions[s].updates = Append(@, value)]

\* self.session_stop_defer_list.append(session.cleanup())
AppendCleanup(st, s) ==
    [st EXCEPT
       !.session_stop_defer_list = Append(@, CleanupDeferred(s)),
       !.sessions[s].cleanups = @ + 1]

\* clean_session(session)
clean_session(st, s) ==
    LET url == st.sessions[s].tracker_url
        st1 == AppendCleanup(update_tracker_info(st, s, ~st.sessions[s].is_failed), s)
    IN  IF url \notin DOMAIN st.session_list \/ s \notin Range(st.session_list[url])
        THEN [st1 EXCEPT !.raised = TRUE]   \* KeyError, or ValueError of list.remove
        ELSE [st1 EXCEPT !.session_list = Unregister(@, url, s)]

\* _on_result_from_session(session, result_list): the record st after it and
\* what the session's Deferred carries on
on_result_from_session(st, stop, s, health) ==
    IF stop
    THEN [st |-> st, out |-> NoneResult]
    ELSE LET st1 == clean_session(st, s) IN
         IF st1.raised
         THEN [st |-> st1, out |-> FailureResult(None, "ValueError")]
         ELSE [st |-> st1, out |-> Response(st.sessions[s].tracker_url, health)]

\* failure.trap(ValueError, CancelledError, ConnectingCancelledError,
\*              ConnectionLost, RuntimeError)
Trapped(type) ==
    type \in {"ValueError", "CancelledError", "ConnectingCancelledError",
              "ConnectionLost", "RuntimeError"}

\* failure.check(CancelledError, ConnectingCancelledError) is not None
IsCancellation(type) == type \in {"CancelledError", "ConnectingCancelledError"}

\* on_session_error(session, failure)
on_session_error(st, s, type) ==
    IF ~Trapped(type)
    THEN [st |-> st, out |-> FailureResult(None, type)]   \* trap re-raises
    ELSE LET st1 == clean_session(st, s) IN
         IF st1.raised
         THEN [st |-> st1, out |-> FailureResult(None, "ValueError")]
         ELSE [st |-> IF IsCancellation(type) THEN st1
                      ELSE update_tracker_info(st1, s, FALSE),
               out |-> FailureResult(st.sessions[s].tracker_url, type)]

(***************************************************************************)
(* Reconciliation: on_gui_request_completed.                               *)
(***************************************************************************)
\* the comparison without its second line: equal seeders never replace the pair
BetterSeedersOnly(s, l, best) == s > best[1]

\* the comparison with >= for >: equal seeders always replace the pair
BetterOrEqualSeeders(s, l, best) == s >= best[1]

\* lines 195-196: whether (s, l) replaces the pair kept so far
Better(s, l, best) == s > best[1] \/ (s = best[1] /\ l > best[2])

\* lines 184-198: the loop over reversed(result), from position i down, with
\* the pair kept so far; a Failure is skipped
RECURSIVE Reconcile(_, _, _)
Reconcile(result, i, best) ==
    IF i = 0 THEN best
    ELSE IF ~result[i].ok THEN Reconcile(result, i - 1, best)
    ELSE IF Better(result[i].seeders, result[i].leechers, best)
         THEN Reconcile(result, i - 1, <<result[i].seeders, result[i].leechers>>)
         ELSE Reconcile(result, i - 1, best)

\* the loop raises AttributeError on a Failure without tracker_url (line 187)
\* and on a success whose result is None (line 189)
ReconcileRaises(result) ==
    \E i \in 1..Len(result) :
        \/ ~result[i].ok /\ result[i].url = None
        \/ result[i].ok /\ result[i].val = None

\* _update_torrent_result(response): nothing is written without a stored record
update_torrent_result(ts, infohash, seeders, leechers, last_check) ==
    IF ~ts[infohash].exists THEN ts
    ELSE [ts EXCEPT ![infohash] = [exists |-> TRUE, seeders |-> seeders,
                                   leechers |-> leechers, last_check |-> last_check]]

\* publish_torrent_result without the test of line 326
PublishZeroSeeders(community, seeders) == community

\* publish_torrent_result(response): whether popularity_community.queue_content
\* is called; community tells whether lm.popularity_community is set
publish_torrent_result(community, seeders) ==
    IF seeders = 0 THEN FALSE ELSE community

\* a DeferredList of add_gui_request right after its construction; beside the
\* result list it keeps what on_gui_request_completed did: the
\* torrent_update_dict (seeders, leechers, last_check), whether
\* _update_torrent_result wrote it, whether it was queued for the popularity
\* community, and whether the notifier was called
NewRequest(infohash, n) ==
    [infohash |-> infohash, results |-> [i \in 1..n |-> Pending],
     status |-> "joining", update |-> <<>>, written |-> FALSE,
     published |-> FALSE, notified |-> FALSE]

\* on_gui_request_completed(infohash, result) at time t: the torrent records
\* and the DeferredList req after it
on_gui_request_completed(ts, community, t, req, result) ==
    IF ReconcileRaises(result)
    THEN [torrent_state |-> ts,
          request |-> [req EXCEPT !.results = result, !.status = "raised"]]
    ELSE LET best == Reconcile(result, Len(result), <<0, 0>>) IN
         [torrent_state |-> update_torrent_result(ts, req.infohash, best[1], best[2], t),
          request |-> [req EXCEPT
                         !.results = result,
                         !.status = "done",
                         !.update = <<best[1], best[2], t>>,
                         !.written = ts[req.infohash].exists,
                         !.published = publish_torrent_result(community, best[1]),
                         !.notified = TRUE]]

(***************************************************************************)
(* The state machine.                                                      *)
(***************************************************************************)
SelectionTask == "torrent_checker_tracker_selection"

\* _reschedule_tracker_select without its register_task call
NoReschedule(pending) == pending

\* lines 99-104: _reschedule_tracker_select registers the selection task
reschedule_tracker_select(pending) == pending \cup {SelectionTask}

\* the state after TorrentChecker.__init__
Init ==
    /\ should_stop = FALSE
    /\ session_list = (DHT :> <<>>)
    /\ session_stop_defer_list = <<>>
    /\ udp_port = None
    /\ connection_pool = None
    /\ tasks = {}
    /\ sessions = <<>>
    /\ requests = <<>>
    /\ shutdown_wait = {}
    /\ torrent_state = InitialTorrentState
    /\ tracker_failures = [u \in Identities |-> 0]
    /\ removed_trackers = {}
    /\ now = 1899
    /\ returned = <<"none">>

\* the fields the handlers assign, before a step
St ==
    [session_list |-> session_list,
     session_stop_defer_list |-> session_stop_defer_list,
     tracker_failures |-> tracker_failures,
     sessions |-> sessions,
     raised |-> FALSE]

\* the owner constructs the checker and calls initialize() before anything else
Initialized == connection_pool # None

\* initialize(), with create_socket_or_schedule: listen_on_udp binds the port
\* (a socket.error, after which the method schedules itself again, is left out)
initialize ==
    /\ ~Initialized
    /\ ~should_stop
    /\ connection_pool' = "pool"
    /\ udp_port' = "port"
    /\ tasks' = reschedule_tracker_select(tasks)
    /\ returned' = <<"none">>
    /\ UNCHANGED <<should_stop, session_list, session_stop_defer_list, sessions,
                   requests, shutdown_wait, torrent_state, tracker_failures,
                   removed_trackers, now>>

\* time passes
Advance ==
    /\ \E t \in Clock : t > now /\ now' = t
    /\ returned' = <<"none">>
    /\ UNCHANGED <<should_stop, session_list, session_stop_defer_list, udp_port,
                   connection_pool, tasks, sessions, requests, shutdown_wait,
                   torrent_state, tracker_failures, removed_trackers>>

\* get_valid_trackers_of_torrent(torrent_id); a removed tracker has left the store
get_valid_trackers_of_torrent(infohash) ==
    {u \in TorrentTrackers(infohash) \ removed_trackers : is_valid_url(u)}

\* _create_session_for_request, with the add_infohash calls that follow it:
\* create_tracker_session raises, or the new session is registered
create_session_for_request(st, tracker_url, infohashes, request, slot) ==
    IF RaisesMalformed(tracker_url)
    THEN [st EXCEPT !.raised = TRUE]
    ELSE [st EXCEPT
            !.sessions = Append(@, NewSession(tracker_url, infohashes, request, slot)),
            !.session_list = RegisterSession(@, tracker_url, Len(st.sessions) + 1)]

\* lines 243-247: the loop over tracker_set, taken in the order the set yields
\* it, from position i on; an exception of a creation ends the loop
RECURSIVE FanOut(_, _, _, _, _)
FanOut(st, order, i, infohash, request) ==
    IF i > Len(order) THEN st
    ELSE LET st1 == create_session_for_request(st, order[i], {infohash}, request, i) IN
         IF st1.raised THEN st1
         ELSE FanOut(st1, order, i + 1, infohash, request)

\* lines 249-253: the FakeDHTSession, appended to the list of DHT
AddDHTSession(st, infohash, request, slot) ==
    [st EXCEPT
       !.sessions = Append(@, NewSession(DHT, {infohash}, request, slot)),
       !.session_list = [@ EXCEPT ![DHT] = Append(@, Len(st.sessions) + 1)]]

\* line 229 with the retry interval in the place of the check interval
TooRecentByRetryInterval(infohash, scrape_now) ==
    /\ torrent_state[infohash].exists
    /\ now - torrent_state[infohash].last_check < DEFAULT_TORRENT_CHECK_RETRY_INTERVAL
    /\ ~scrape_now

\* line 229: the stored record is recent and the caller does not force a scrape
TooRecent(infohash, scrape_now) ==
    /\ torrent_state[infohash].exists
    /\ now - torrent_state[infohash].last_check < DEFAULT_TORRENT_CHECK_INTERVAL
    /\ ~scrape_now

\* add_gui_request(infohash, timeout, scrape_now).  A session created before a
\* creation raised belongs to no DeferredList (request 0).
add_gui_request(infohash, scrape_now) ==
    /\ Initialized
    /\ \/ /\ TooRecent(infohash, scrape_now)
          /\ returned' = <<"add_gui_request", infohash, scrape_now, "db",
                           torrent_state[infohash].seeders,
                           torrent_state[infohash].leechers>>
          /\ UNCHANGED <<session_list, sessions, requests>>
       \/ /\ ~TooRecent(infohash, scrape_now)
          /\ \E order \in Orderings(IF torrent_state[infohash].exists
                                    THEN get_valid_trackers_of_torrent(infohash)
                                    ELSE {}) :
                LET raises == \E i \in 1..Len(order) : RaisesMalformed(order[i])
                    r == IF raises THEN 0 ELSE Len(requests) + 1
                    st1 == FanOut(St, order, 1, infohash, r)
                    st2 == IF raises THEN st1
                           ELSE AddDHTSession(st1, infohash, r, Len(order) + 1)
                IN  /\ Len(st2.sessions) <= MaxSessions
                    /\ session_list' = st2.session_list
                    /\ sessions' = st2.sessions
                    /\ IF raises
                       THEN /\ requests' = requests
                            /\ returned' = <<"add_gui_request", infohash, scrape_now,
                                             "raised", "MalformedTrackerURLException">>
                       ELSE /\ requests' = Append(requests,
                                                  NewRequest(infohash, Len(order) + 1))
                            /\ returned' = <<"add_gui_request", infohash, scrape_now,
                                             "deferred", r>>
    /\ UNCHANGED <<should_stop, session_stop_defer_list, udp_port, connection_pool,
                   tasks, shutdown_wait, torrent_state, tracker_failures,
                   removed_trackers, now>>

\* The Deferred of session s fires and its callbacks run: the session callback
\* (done is its record st and its result), then, when s belongs to a
\* DeferredList, the slot of s is filled, and when that was its last open slot
\* on_gui_request_completed runs; community tells whether
\* lm.popularity_community is set at that moment.
Complete(s, done, community) ==
    LET r == sessions[s].request
        results == [requests[r].results EXCEPT ![sessions[s].slot] = done.out]
        joined == \A i \in 1..Len(results) : results[i].val # "pending"
        fin == on_gui_request_completed(torrent_state, community, now, requests[r],
                                        results)
    IN  /\ session_list' = done.st.session_list
        /\ session_stop_defer_list' = done.st.session_stop_defer_list
        /\ tracker_failures' = done.st.tracker_failures
        /\ sessions' = [done.st.sessions EXCEPT ![s].result = done.out]
        /\ IF r = 0
           THEN UNCHANGED <<requests, torrent_state>>
           ELSE IF ~joined
           THEN /\ requests' = [requests EXCEPT ![r].results = results]
                /\ UNCHANGED torrent_state
           ELSE /\ requests' = [requests EXCEPT ![r] = fin.request]
                /\ torrent_state' = fin.torrent_state
        /\ returned' = <<"none">>
        /\ UNCHANGED <<should_stop, udp_port, connection_pool, tasks, shutdown_wait,
                       removed_trackers, now>>

\* the probe of session s ends with a result
probe_succeeds(s, health, community) ==
    /\ s \in DOMAIN sessions
    /\ sessions[s].result = Pending
    /\ Complete(s, on_result_from_session(St, should_stop, s, health), community)

\* the probe of session s ends with a Failure of the given type; the session
\* has set its is_failed flag or not
probe_fails(s, type, is_failed, community) ==
    /\ s \in DOMAIN sessions
    /\ sessions[s].result = Pending
    /\ Complete(s, on_session_error([St EXCEPT !.sessions[s].is_failed = is_failed],
                                    s, type), community)

\* the sessions of the registry; shutdown() walks the dict and its lists, here
\* in the order of the session numbers
RECURSIVE RegisteredFrom(_, _)
RegisteredFrom(list, s) ==
    IF s > Len(sessions) THEN <<>>
    ELSE (IF \E u \in DOMAIN list : s \in Range(list[u]) THEN <<s>> ELSE <<>>)
         \o RegisteredFrom(list, s + 1)

Registered(list) == RegisteredFrom(list, 1)

\* lines 93-95: session.cleanup() for the sessions live, from position i on
RECURSIVE CleanupAll(_, _, _)
CleanupAll(st, live, i) ==
    IF i > Len(live) THEN st
    ELSE CleanupAll(AppendCleanup(st, live[i]), live, i + 1)

\* the Deferred of udp_port.stopListening or of closeCachedConnections
StopDeferred(kind) == [kind |-> kind, session |-> 0, fired |-> FALSE]

\* lines 82-87: the Deferreds of the port and of the connection pool
StopShared(st, port, pool) ==
    [st EXCEPT !.session_stop_defer_list =
        @ \o (IF port # None THEN <<StopDeferred("stopListening")>> ELSE <<>>)
          \o (IF pool # None THEN <<StopDeferred("closeCachedConnections")>> ELSE <<>>)]

\* shutdown(); the owner of the checker calls it once
shutdown ==
    /\ Initialized
    /\ ~should_stop
    /\ should_stop' = TRUE
    /\ udp_port' = None
    /\ tasks' = {}          \* shutdown_task_manager cancels every pending task
    /\ LET st1 == CleanupAll(StopShared(St, udp_port, connection_pool),
                             Registered(session_list), 1)
       IN  /\ session_stop_defer_list' = st1.session_stop_defer_list
           /\ shutdown_wait' = DOMAIN st1.session_stop_defer_list
           /\ sessions' = st1.sessions
    /\ returned' = <<"shutdown", "deferred">>
    /\ UNCHANGED <<session_list, connection_pool, requests, torrent_state,
                   tracker_failures, removed_trackers, now>>

\* Deferreds of session_stop_defer_list fire: a cleanup, the port or the pool
\* has finished.  Nothing in the checker reads such a Deferred except the
\* DeferredList of shutdown(), so the ones it joins are taken to fire together,
\* and a Deferred it does not join fires on its own.
FireAll(list, which) ==
    [i \in DOMAIN list |-> IF i \in which THEN [list[i] EXCEPT !.fired = TRUE]
                                           ELSE list[i]]

deferreds_fire ==
    /\ should_stop
    /\ \/ /\ \E i \in shutdown_wait : ~session_stop_defer_list[i].fired
          /\ session_stop_defer_list' = FireAll(session_stop_defer_list, shutdown_wait)
       \/ \E i \in DOMAIN session_stop_defer_list \ shutdown_wait :
             /\ ~session_stop_defer_list[i].fired
             /\ session_stop_defer_list' = FireAll(session_stop_defer_list, {i})
    /\ returned' = <<"none">>
    /\ UNCHANGED <<should_stop, session_list, udp_port, connection_pool, tasks,
                   sessions, requests, shutdown_wait, torrent_state,
                   tracker_failures, removed_trackers, now>>

\* the DeferredList that shutdown() returned has fired
ShutdownResolved ==
    /\ should_stop
    /\ \A i \in shutdown_wait : session_stop_defer_list[i].fired

RECURSIVE Pow2(_)
Pow2(n) == IF n = 0 THEN 1 ELSE 2 * Pow2(n - 1)

\* tracker.torrents of the TrackerState record of url
TrackerTorrents(url) ==
    {h \in Infohashes : torrent_state[h].exists /\ url \in TorrentTrackers(h)}

\* lines 123-131: the torrents of tracker_url that are due
DueInfohashes(tracker_url) ==
    IF tracker_url \notin StoredTrackers THEN {}
    ELSE {h \in TrackerTorrents(tracker_url) :
            torrent_state[h].last_check
              + DEFAULT_TORRENT_CHECK_RETRY_INTERVAL * Pow2(tracker_failures[tracker_url])
            < now}

\* line 136 with False for True
NothingToCheckAsFailure(failures, tracker_url) ==
    RecordOutcome(failures, tracker_url, FALSE)

\* line 136: update_tracker_info(tracker_url, True) when nothing is to check
nothing_to_check(failures, tracker_url) == RecordOutcome(failures, tracker_url, TRUE)

\* lines 147-148 without the loop: no infohash is added to the session
AddNoInfohash(infohashes) == {}

\* lines 147-148: the infohashes of the session after add_infohash was called
\* for every selected infohash
add_infohashes(infohashes) == infohashes

\* _task_select_tracker() when get_valid_next_tracker_for_auto_check removes the
\* trackers purge and returns tracker_url: the timer has fired, so its task is
\* no longer pending, and the method registers it again first
select_tracker(purge, tracker_url) ==
    /\ SelectionTask \in tasks
    /\ tasks' = reschedule_tracker_select(tasks \ {SelectionTask})
    /\ \/ /\ tracker_url = None
          /\ removed_trackers' = removed_trackers \cup purge
          /\ UNCHANGED <<session_list, sessions, tracker_failures>>
       \/ /\ tracker_url # None
          /\ DueInfohashes(tracker_url) = {}
          /\ removed_trackers' = removed_trackers \cup purge
          /\ tracker_failures' = nothing_to_check(tracker_failures, tracker_url)
          /\ UNCHANGED <<session_list, sessions>>
       \/ /\ tracker_url # None
          /\ DueInfohashes(tracker_url) # {}
          /\ tracker_url \notin {DHT, NoDHT}
          /\ LET st1 == create_session_for_request(St, tracker_url,
                            add_infohashes(DueInfohashes(tracker_url)), 0, 0)
             IN  IF st1.raised
                 THEN /\ removed_trackers' = removed_trackers \cup purge
                                             \cup {tracker_url}
                      /\ UNCHANGED <<session_list, sessions>>
                 ELSE /\ Len(st1.sessions) <= MaxSessions
                      /\ removed_trackers' = removed_trackers \cup purge
                      /\ session_list' = st1.session_list
                      /\ sessions' = st1.sessions
          /\ UNCHANGED tracker_failures
       \/ /\ tracker_url \in {DHT, NoDHT}
          /\ DueInfohashes(tracker_url) # {}
          /\ removed_trackers' = removed_trackers \cup purge
          /\ UNCHANGED <<session_list, sessions, tracker_failures>>
    /\ UNCHANGED <<should_stop, session_stop_defer_list, udp_port, connection_pool,
                   requests, shutdown_wait, torrent_state, now>>

\* the trackers get_valid_next_tracker_for_auto_check can remove, and the ones
\* it can return
Purgeable == {u \in Identities \ removed_trackers : ~is_valid_url(u)}

Selectable == {u \in Identities \ removed_trackers : is_valid_url(u)} \cup {None}

\* _task_select_tracker(), fired by its timer
task_select_tracker ==
    /\ \E purge \in SUBSET Purgeable, tracker_url \in Selectable :
          select_tracker(purge, tracker_url)
    /\ returned' = <<"none">>

Next ==
    \/ initialize
    \/ Advance
    \/ \E infohash \in Infohashes, scrape_now \in BOOLEAN :
          add_gui_request(infohash, scrape_now)
    \/ \E s \in 1..MaxSessions, health \in Healths, community \in BOOLEAN :
          probe_succeeds(s, health, community)
    \/ \E s \in 1..MaxSessions, type \in FailureTypes, is_failed \in BOOLEAN,
          community \in BOOLEAN :
          probe_fails(s, type, is_failed, community)
    \/ shutdown
    \/ deferreds_fire
    \/ task_select_tracker

Spec == Init /\ [][Next]_vars

(***************************************************************************)
(* on_gui_request_completed on its own: the DeferredList of one request     *)
(* has fired with a result list drawn from every list of at most            *)
(* MaxOutcomes outcomes, and the callback runs on it.                       *)
(***************************************************************************)
\* (seeders, leechers) pairs of the drawn outcomes
ReconcileHealths == {<<0, 0>>, <<0, 2>>, <<3, 1>>, <<5, 2>>, <<5, 9>>}

\* (False, Failure) of a tracker whose swarm has the given health: the Failure
\* carries no counts, the pair is what the loop must not take into account
FailedWith(url, type, health) ==
    [FailureResult(url, type) EXCEPT !.seeders = health[1], !.leechers = health[2]]

\* what one participant can hand to the DeferredList
Outcomes ==
    {Response(DHT, h) : h \in ReconcileHealths}
    \cup {FailedWith(T1, "ConnectionLost", h) : h \in {<<3, 1>>, <<9, 9>>}}
    \cup {NoneResult, FailureResult(None, "TimeoutError")}

OutcomeLists == UNION {[1..n -> Outcomes] : n \in 1..MaxOutcomes}

InitReconcile ==
    /\ should_stop = FALSE
    /\ session_list = (DHT :> <<>>)
    /\ session_stop_defer_list = <<>>
    /\ udp_port = "port"
    /\ connection_pool = "pool"
    /\ tasks = {SelectionTask}
    /\ sessions = <<>>
    /\ \E infohash \in Infohashes, result \in OutcomeLists :
          requests = <<[NewRequest(infohash, Len(result)) EXCEPT !.results = result]>>
    /\ shutdown_wait = {}
    /\ torrent_state = InitialTorrentState
    /\ tracker_failures = [u \in Identities |-> 0]
    /\ removed_trackers = {}
    /\ now \in Clock
    /\ returned = <<"none">>

\* the callback of the DeferredList: on_gui_request_completed(infohash, res)
gui_request_completed(community) ==
    /\ requests[1].status = "joining"
    /\ LET fin == on_gui_request_completed(torrent_state, community, now, requests[1],
                                           requests[1].results)
       IN  /\ requests' = <<fin.request>>
           /\ torrent_state' = fin.torrent_state
    /\ UNCHANGED <<should_stop, session_list, session_stop_defer_list, udp_port,
                   connection_pool, tasks, sessions, shutdown_wait, tracker_failures,
                   removed_trackers, now, returned>>

NextReconcile == \E community \in BOOLEAN : gui_request_completed(community)

SpecReconcile == InitReconcile /\ [][NextReconcile]_vars

(***************************************************************************)
(* The registry under calls of clean_session at will: health-check         *)
(* requests create sessions, their probes end, and clean_session, a public *)
(* method, is called on any session, one already retired included.         *)
(***************************************************************************)
\* whether session s stands in the registry
InRegistry(list, s) == \E u \in DOMAIN list : s \in Range(list[u])

\* a call clean_session(session) from outside the callbacks
call_clean_session(s) ==
    /\ Initialized
    /\ s \in DOMAIN sessions
    /\ sessions[s].cleanups < MaxCleanups
    /\ LET st1 == clean_session(St, s) IN
          /\ session_list' = st1.session_list
          /\ session_stop_defer_list' = st1.session_stop_defer_list
          /\ tracker_failures' = st1.tracker_failures
          /\ sessions' = st1.sessions
          /\ returned' = <<"clean_session", s,
                           IF st1.raised THEN "raised" ELSE "returned">>
    /\ UNCHANGED <<should_stop, udp_port, connection_pool, tasks, requests,
                   shutdown_wait, torrent_state, removed_trackers, now>>

NextRegistry ==
    \/ initialize
    \/ \E infohash \in Infohashes, scrape_now \in BOOLEAN :
          add_gui_request(infohash, scrape_now)
    \/ \E s \in 1..MaxSessions, health \in Healths, community \in BOOLEAN :
          probe_succeeds(s, health, community)
    \/ \E s \in 1..MaxSessions, type \in FailureTypes, is_failed \in BOOLEAN,
          community \in BOOLEAN :
          probe_fails(s, type, is_failed, community)
    \/ \E s \in 1..MaxSessions : call_clean_session(s)

SpecRegistry == Init /\ [][NextRegistry]_vars

(***************************************************************************)
(* The tracker selection on its own: the store starts with trackers that   *)
(* have failed before, at one of several times of day, and the timer fires *)
(* while the probes it started end.  returned tells which tracker the last *)
(* tick selected.                                                          *)
(***************************************************************************)
\* readings of time.time() at which the selection starts
TickClock == {1029, 1030, 1031, 8681, 16500}

InitTick ==
    /\ should_stop = FALSE
    /\ session_list = (DHT :> <<>>)
    /\ session_stop_defer_list = <<>>
    /\ udp_port = "port"
    /\ connection_pool = "pool"
    /\ tasks = {SelectionTask}
    /\ sessions = <<>>
    /\ requests = <<>>
    /\ shutdown_wait = {}
    /\ torrent_state = InitialTorrentState
    /\ \E failures \in 0..MaxFailures :
          tracker_failures = [u \in Identities |->
                                 IF u \in {T1, DHT} THEN failures ELSE 0]
    /\ removed_trackers = {}
    /\ now \in TickClock
    /\ returned = <<"none">>

\* _task_select_tracker(), fired by its timer, with the selection observed
task_select_tracker_observed ==
    \E purge \in SUBSET Purgeable, tracker_url \in Selectable :
       /\ select_tracker(purge, tracker_url)
       /\ returned' = <<"task_select_tracker", tracker_url>>

NextTick ==
    \/ task_select_tracker_observed
    \/ \E s \in 1..MaxSessions, health \in Healths, community \in BOOLEAN :
          probe_succeeds(s, health, community)
    \/ \E s \in 1..MaxSessions, type \in FailureTypes, is_failed \in BOOLEAN,
          community \in BOOLEAN :
          probe_fails(s, type, is_failed, community)

SpecTick == InitTick /\ [][NextTick]_vars

(***************************************************************************)
(* Properties.                                                             *)
(***************************************************************************)
\* the step just taken was a call add_gui_request(infohash, ...)
IsGuiRequest(call, infohash) ==
    call[1] = "add_gui_request" /\ call[2] = infohash

\* the trackers of a torrent that is_valid_url accepts: the N of a fan-out
ValidKnownTrackers(infohash) ==
    IF torrent_state[infohash].exists
    THEN {u \in TorrentTrackers(infohash) \ removed_trackers : is_valid_url(u)}
    ELSE {}

\* C1: an add_gui_request that is not short-circuited, for a torrent with N
\* valid known trackers, creates exactly N + 1 sessions (one per tracker and
\* one for the DHT), and on_gui_request_completed has run only for a
\* DeferredList of N + 1 participants that all have their outcome.
C1_FanOutAndFullJoin ==
    /\ [][\A h \in Infohashes :
            (IsGuiRequest(returned', h) /\ returned'[4] # "db")
            => Len(sessions') = Len(sessions) + Cardinality(ValidKnownTrackers(h)) + 1]_vars
    /\ [](\A r \in DOMAIN requests :
            requests[r].status # "joining"
            => \A i \in DOMAIN requests[r].results :
                  requests[r].results[i].val # "pending")

\* C4: a session whose probe failed with a cancellation (CancelledError,
\* ConnectingCancelledError), handled by on_session_error, has had no tracker
\* outcome reported to update_tracker_info.
C4_CancellationReportsNothing ==
    \A s \in DOMAIN sessions :
        (sessions[s].result.val = "failure"
            /\ sessions[s].result.error \in {"CancelledError", "ConnectingCancelledError"})
        => sessions[s].updates = <<>>

\* C5: session.cleanup() is called on no session more than once, and a session
\* whose probe has ended has had it called exactly once by the time shutdown()
\* has been called.
C5_CleanupExactlyOnce ==
    \A s \in DOMAIN sessions :
        /\ sessions[s].cleanups <= 1
        /\ (should_stop /\ sessions[s].result.val # "pending")
              => sessions[s].cleanups = 1

\* C6: once the DeferredList of shutdown() has fired, the registry holds no
\* session of an identity other than DHT, and every Deferred of a started
\* cleanup has fired.
C6_ShutdownLeavesNothing ==
    ShutdownResolved
    => /\ \A u \in DOMAIN session_list : u # DHT => Len(session_list[u]) = 0
       /\ \A i \in DOMAIN session_stop_defer_list : session_stop_defer_list[i].fired

\* C7: once _should_stop is set, no step writes a torrent health record, calls
\* the notifier or queues content for the popularity community: a DeferredList
\* whose last participant ends then completes without any of them.
C7_NothingWrittenWhenStopping ==
    [][should_stop
        => /\ torrent_state' = torrent_state
           /\ \A r \in DOMAIN requests :
                 requests[r].status = "joining"
                 => /\ ~requests'[r].written
                    /\ ~requests'[r].notified
                    /\ ~requests'[r].published]_vars

\* C10: after shutdown has completed, a call of add_gui_request creates no
\* session, registers nothing and returns a stopped-state error.
C10_NoRequestAfterShutdown ==
    [][\A h \in Infohashes :
          (ShutdownResolved /\ IsGuiRequest(returned', h))
          => /\ sessions' = sessions
             /\ session_list' = session_list
             /\ returned'[4] = "raised"
             /\ returned'[5] = "stopped"]_vars

\* the pair of maximum seeders, and of maximum leechers among those, of the
\* successful outcomes of a result list; (0, 0) when there is none
ReferenceMaximum(result) ==
    LET pairs == {<<result[i].seeders, result[i].leechers>> :
                     i \in {k \in 1..Len(result) : result[k].ok}} \cup {<<0, 0>>}
    IN  CHOOSE p \in pairs :
           \A q \in pairs : q[1] < p[1] \/ (q[1] = p[1] /\ q[2] <= p[2])

\* C2: the (seeders, leechers) that on_gui_request_completed writes is the pair
\* of maximum seeders, ties broken by maximum leechers, among the successful
\* outcomes of its result list; a failed outcome contributes nothing.
C2_ReconciledIsMaximum ==
    \A r \in DOMAIN requests :
        requests[r].status = "done"
        => <<requests[r].update[1], requests[r].update[2]>>
             = ReferenceMaximum(requests[r].results)

\* C2 witness: the outcomes (3,1) failed, (5,2), (5,9) were reconciled to (5,9)
C2_Witness ==
    \E r \in DOMAIN requests :
        /\ requests[r].status = "done"
        /\ requests[r].results = <<FailedWith(T1, "ConnectionLost", <<3, 1>>),
                                   Response(DHT, <<5, 2>>), Response(DHT, <<5, 9>>)>>
        /\ requests[r].update[1] = 5
        /\ requests[r].update[2] = 9

\* the result list in the order the permutation p gives
Permuted(result, p) == [i \in 1..Len(result) |-> result[p[i]]]

\* C3: the pair that on_gui_request_completed writes for a result list is the
\* pair the loop computes for every permutation of that list.
C3_OrderIndependent ==
    \A r \in DOMAIN requests :
        requests[r].status = "done"
        => \A p \in Permutations(1..Len(requests[r].results)) :
              Reconcile(Permuted(requests[r].results, p), Len(requests[r].results),
                        <<0, 0>>)
                = <<requests[r].update[1], requests[r].update[2]>>

\* C3 witness: a reconciled list of three outcomes in which two successes tie on
\* seeders and the one with more leechers stands first
C3_Witness ==
    \E r \in DOMAIN requests :
        /\ requests[r].status = "done"
        /\ Len(requests[r].results) = 3
        /\ requests[r].results[1] = Response(DHT, <<5, 9>>)
        /\ requests[r].results[3] = Response(DHT, <<5, 2>>)
        /\ requests[r].update[2] = 9

\* C8: add_gui_request(h, scrape_now=False) for a torrent whose stored record
\* was checked less than DEFAULT_TORRENT_CHECK_INTERVAL seconds ago returns the
\* stored seeders and leechers and changes neither the registry, the sessions,
\* the requests (with their notifications), the torrent records, the tracker
\* state nor the cleanup Deferreds.
C8_RecentRecordShortCircuits ==
    [][\A h \in Infohashes :
          (/\ IsGuiRequest(returned', h)
           /\ returned'[3] = FALSE
           /\ torrent_state[h].exists
           /\ now - torrent_state[h].last_check < DEFAULT_TORRENT_CHECK_INTERVAL)
          => /\ returned'[4] = "db"
             /\ returned'[5] = torrent_state[h].seeders
             /\ returned'[6] = torrent_state[h].leechers
             /\ UNCHANGED <<session_list, sessions, requests, torrent_state,
                            tracker_failures, removed_trackers,
                            session_stop_defer_list>>]_vars

\* C8 witness: add_gui_request has just answered, from the store, a call without
\* scrape_now for a record checked less than the interval ago
C8_Witness ==
    /\ returned[1] = "add_gui_request"
    /\ returned[3] = FALSE
    /\ returned[4] = "db"
    /\ torrent_state[returned[2]].exists
    /\ now - torrent_state[returned[2]].last_check < DEFAULT_TORRENT_CHECK_INTERVAL
    /\ returned[5] = torrent_state[returned[2]].seeders

\* C9: when on_gui_request_completed reconciles a request to seeders = 0, the
\* torrent's record holds the reconciled values afterwards and nothing is queued
\* for the popularity community; something is queued only with seeders > 0.
C9_ZeroSeedersPersistedNotPublished ==
    [][\A r \in DOMAIN requests :
          (requests[r].status = "joining" /\ requests'[r].status = "done")
          => LET h == requests[r].infohash
                 u == requests'[r].update
             IN  /\ u[1] = 0
                    => /\ torrent_state'[h] = [exists |-> TRUE, seeders |-> 0,
                                               leechers |-> u[2], last_check |-> u[3]]
                       /\ ~requests'[r].published
                 /\ requests'[r].published => u[1] > 0]_vars

\* C9 amended: as C9, with the record written only for a torrent that has a
\* stored record; for a torrent without one the store is left as it was.
C9_ZeroSeedersPersistedIfStored ==
    [][\A r \in DOMAIN requests :
          (requests[r].status = "joining" /\ requests'[r].status = "done")
          => LET h == requests[r].infohash
                 u == requests'[r].update
             IN  /\ (u[1] = 0 /\ torrent_state[h].exists)
                    => torrent_state'[h] = [exists |-> TRUE, seeders |-> 0,
                                            leechers |-> u[2], last_check |-> u[3]]
                 /\ ~torrent_state[h].exists => torrent_state' = torrent_state
                 /\ u[1] = 0 => ~requests'[r].published
                 /\ requests'[r].published => u[1] > 0]_vars

\* C9 witness: a request of a stored torrent was reconciled to zero seeders with
\* leechers, its record holds that result, and nothing was queued
C9_Witness ==
    \E r \in DOMAIN requests :
        /\ requests[r].status = "done"
        /\ requests[r].update[1] = 0
        /\ requests[r].update[2] > 0
        /\ requests[r].written
        /\ ~requests[r].published
        /\ torrent_state[requests[r].infohash].seeders = 0
        /\ torrent_state[requests[r].infohash].leechers = requests[r].update[2]
        /\ torrent_state[requests[r].infohash].last_check = requests[r].update[3]

\* C11: in every reachable state the registry has the key DHT, no other
\* identity has an empty list, and no session stands twice in the registry
\* (neither in two lists nor twice in one).
C11_RegistryWellFormed ==
    /\ DHT \in DOMAIN session_list
    /\ \A u \in DOMAIN session_list \ {DHT} : Len(session_list[u]) > 0
    /\ \A u, v \in DOMAIN session_list :
          \A i \in DOMAIN session_list[u], j \in DOMAIN session_list[v] :
             session_list[u][i] = session_list[v][j] => (u = v /\ i = j)

\* C11 witness: two sessions were created, the one of a tracker was retired and
\* its identity left the registry, and DHT is kept with an empty list
C11_Witness ==
    /\ Len(sessions) = 2
    /\ \E s \in DOMAIN sessions :
          /\ sessions[s].tracker_url = T1
          /\ sessions[s].cleanups = 1
          /\ sessions[s].result.val # "pending"
    /\ T1 \notin DOMAIN session_list
    /\ session_list[DHT] = <<>>

\* C14: an add_gui_request that is not answered from the store never raises: it
\* returns the DeferredList of all its participants; and a DeferredList whose
\* participants all have their outcome has been reconciled (the callback ran to
\* its end), whatever the outcomes were.
C14_FailureNeverAbortsSiblings ==
    /\ [][\A h \in Infohashes :
            (IsGuiRequest(returned', h) /\ returned'[4] # "db")
            => returned'[4] = "deferred"]_vars
    /\ [](\A r \in DOMAIN requests :
            (\A i \in DOMAIN requests[r].results :
                requests[r].results[i].val # "pending")
            => requests[r].status = "done")

\* C15: when the probe of a session ends, with a result or with a failure of
\* any type, the session leaves the registry and its cleanup is started, unless
\* _should_stop is set: then the registry and the cleanups stay as they were.
C15_RetiredUnlessStopping ==
    [][\A s \in DOMAIN sessions :
          (sessions[s].result.val = "pending" /\ sessions'[s].result.val # "pending")
          => IF should_stop
             THEN /\ session_list' = session_list
                  /\ session_stop_defer_list' = session_stop_defer_list
             ELSE /\ \A u \in DOMAIN session_list' :
                        \A i \in DOMAIN session_list'[u] : session_list'[u][i] # s
                  /\ sessions'[s].cleanups = sessions[s].cleanups + 1]_vars

\* C16: when the DeferredList that shutdown() returned fires, every Deferred of
\* a session.cleanup() that was called before has fired.
C16_ShutdownWaitsForEveryCleanup ==
    [][(~ShutdownResolved /\ ShutdownResolved')
        => \A i \in DOMAIN session_stop_defer_list' :
              session_stop_defer_list'[i].kind = "cleanup"
              => session_stop_defer_list'[i].fired]_vars

\* C20: a session whose probe ended with a response has had exactly one outcome
\* reported to update_tracker_info, a success; one whose probe ended with a
\* failure that is no cancellation has had exactly one reported, a failure.
C20_OneOutcomeReport ==
    \A s \in DOMAIN sessions :
        /\ sessions[s].result.val = "response" => sessions[s].updates = <<TRUE>>
        /\ (sessions[s].result.val = "failure"
              /\ sessions[s].result.error \notin {"CancelledError",
                                                  "ConnectingCancelledError"})
           => sessions[s].updates = <<FALSE>>

\* C12: a call of clean_session on a session that is no longer in the registry
\* returns normally and leaves the registry as it was.
C12_SecondRetireIsHarmless ==
    [][\A s \in DOMAIN sessions :
          (/\ returned'[1] = "clean_session"
           /\ returned'[2] = s
           /\ ~InRegistry(session_list, s))
          => /\ session_list' = session_list
             /\ returned'[3] = "returned"]_vars

\* dueForRecheck(lastCheckedAt, failureCount, now) as the contract states it
DueForRecheck(lastCheckedAt, failureCount, t) ==
    LET exponent == IF failureCount < DEFAULT_MAX_TORRENT_CHECK_RETRIES
                    THEN failureCount ELSE DEFAULT_MAX_TORRENT_CHECK_RETRIES
    IN  t - lastCheckedAt >= DEFAULT_TORRENT_CHECK_RETRY_INTERVAL * Pow2(exponent)

\* the torrents of a tracker that the contract calls due
DueByContract(url) ==
    {h \in TrackerTorrents(url) :
        DueForRecheck(torrent_state[h].last_check, tracker_failures[url], now)}

\* C13: a tick that selects a tracker it can probe checks exactly the torrents
\* of that tracker for which now - last_check >= 30 * 2^min(failures, 8): it
\* creates a session with these infohashes, or none when there is no such
\* torrent.
C13_DueDecisionIsContract ==
    [][(/\ returned'[1] = "task_select_tracker"
        /\ returned'[2] \in StoredTrackers \ {DHT, NoDHT}
        /\ ~RaisesMalformed(returned'[2]))
       => IF DueByContract(returned'[2]) = {}
          THEN sessions' = sessions
          ELSE /\ Len(sessions') = Len(sessions) + 1
               /\ sessions'[Len(sessions')].infohashes
                     = DueByContract(returned'[2])]_vars

\* C17: the selection task stays pending over every step, a tick with whatever
\* tracker it selects included, unless the step sets _should_stop; while the
\* checker is initialized and not stopping the task is pending; once
\* _should_stop is set no task is pending and no step is a tick.
C17_TickRearmsTimer ==
    /\ [][(SelectionTask \in tasks /\ ~should_stop') => SelectionTask \in tasks']_vars
    /\ []((Initialized /\ ~should_stop) => SelectionTask \in tasks)
    /\ [](should_stop => tasks = {})
    /\ [][should_stop
           => ~\E purge \in SUBSET Purgeable, tracker_url \in Selectable :
                  select_tracker(purge, tracker_url)]_vars

\* C17 witness: ticks have removed a tracker and started a probe that is still
\* pending, and the selection task is pending
C17_Witness ==
    /\ removed_trackers # {}
    /\ \E s \in DOMAIN sessions :
          /\ sessions[s].request = 0
          /\ sessions[s].infohashes = {"h1", "h2"}
          /\ sessions[s].result.val = "pending"
    /\ ~should_stop
    /\ SelectionTask \in tasks

\* C18: a tick creates a session only when it selected a tracker other than
\* DHT and no-DHT that has due torrents and for which create_tracker_session
\* does not raise; it then appends exactly one session, of that tracker, with
\* exactly the due infohashes and a pending probe, registered under the
\* tracker.  Any other tick leaves the sessions and the registry as they were,
\* and one that selected DHT or no-DHT changes the tracker state only when no
\* torrent is due.
C18_TickCreatesOneSession ==
    [][returned'[1] = "task_select_tracker"
       => LET tracker_url == returned'[2]
              probed == /\ tracker_url \notin {DHT, NoDHT, None}
                        /\ DueInfohashes(tracker_url) # {}
                        /\ ~RaisesMalformed(tracker_url)
              n == Len(sessions) + 1
          IN  /\ IF probed
                 THEN /\ Len(sessions') = n
                      /\ \A s \in DOMAIN sessions : sessions'[s] = sessions[s]
                      /\ sessions'[n].tracker_url = tracker_url
                      /\ sessions'[n].infohashes = DueInfohashes(tracker_url)
                      /\ sessions'[n].result.val = "pending"
                      /\ session_list' = RegisterSession(session_list, tracker_url, n)
                 ELSE /\ sessions' = sessions
                      /\ session_list' = session_list
              /\ tracker_url \in {DHT, NoDHT}
                 => (tracker_failures' # tracker_failures
                       => DueInfohashes(tracker_url) = {})]_vars

\* C18 witness: the last tick selected udp://t1:80 and created its session with
\* the two due torrents of that tracker, registered and probing
C18_Witness ==
    \E s \in DOMAIN sessions :
        /\ returned = <<"task_select_tracker", T1>>
        /\ s = Len(sessions)
        /\ sessions[s].request = 0
        /\ sessions[s].tracker_url = T1
        /\ sessions[s].infohashes = {"h1", "h2"}
        /\ sessions[s].result.val = "pending"
        /\ T1 \in DOMAIN session_list
        /\ s \in Range(session_list[T1])

\* C19: a tick that selects a tracker with no due torrent (none whose interval
\* has elapsed, or no tracker record) records a success for that tracker and
\* changes neither the sessions, the registry, the cleanups nor the requests.
C19_NothingDueRecordsSuccess ==
    [][(/\ returned'[1] = "task_select_tracker"
        /\ returned'[2] # None
        /\ DueInfohashes(returned'[2]) = {})
       => /\ tracker_failures' = [tracker_failures EXCEPT ![returned'[2]] = 0]
          /\ UNCHANGED <<sessions, session_list, session_stop_defer_list,
                         requests, torrent_state>>]_vars

\* C19 witness: the last tick selected udp://t1:80, none of whose torrents was
\* due with the failure count the tracker started with (the one DHT still
\* has), and the failure count of udp://t1:80 is 0
C19_Witness ==
    /\ returned = <<"task_select_tracker", T1>>
    /\ TrackerTorrents(T1) # {}
    /\ tracker_failures[DHT] > 0
    /\ \A h \in TrackerTorrents(T1) :
          ~(torrent_state[h].last_check
              + DEFAULT_TORRENT_CHECK_RETRY_INTERVAL * Pow2(tracker_failures[DHT])
            < now)
    /\ tracker_failures[T1] = 0
    /\ sessions = <<>>

=============================================================================
